---- MODULE Spec2Model ----
(***************************************************************************)
(* sphinx_external_toc/parsing.py: the parser of a table-of-contents       *)
(* mapping into a SiteMap (parse_toc_data) and the serializer of a SiteMap *)
(* back into a mapping (create_toc_dict).                                  *)
(*                                                                         *)
(* Python values are tagged records, so that isinstance() is a test on the *)
(* tag: PStr, PInt, PBool, PNone, PList (a sequence of values) and PMap (a *)
(* function from key strings to values).  An exception is the name of its  *)
(* class in the field exc of a result; "none" is a normal return.          *)
(***************************************************************************)
EXTENDS Integers, Sequences, FiniteSets, TLC

VARIABLES
    input,         \* the argument of parse_toc_data (a hand-built SiteMap has none)
    skip_defaults, \* the keyword argument of create_toc_dict
    pc,            \* position of the caller: start, parse_raised, parsed, serializing, serialize_raised, serialized, reparsed
    exc,           \* the exception that reached the caller, or "none"
    site_map,      \* the SiteMap returned by parse_toc_data or built by hand
    origin,        \* "parse" or "built": where site_map comes from
    stack,         \* the active calls of _docitem_to_dict, innermost last
    parsed_docnames, \* the set shared by the calls of one create_toc_dict
    inlined,       \* docnames of the registered documents entered by the walk, in order
    toc,           \* the mapping returned by create_toc_dict
    reparsed       \* the result of parse_toc_data(toc)

vars == <<input, skip_defaults, pc, exc, site_map, origin, stack,
          parsed_docnames, inlined, toc, reparsed>>

----------------------------------------------------------------------------
(* Python values *)

PStr(s) == [ty |-> "str", s |-> s]
PInt(n) == [ty |-> "int", n |-> n]
PBool(b) == [ty |-> "bool", b |-> b]
PNone == [ty |-> "none"]
PList(l) == [ty |-> "list", l |-> l]
PMap(m) == [ty |-> "map", m |-> m]

EmptyDict == << >>

\* {key: value}
Dict1(key, value) == [k \in {key} |-> value]

\* {**g, **f}: the keys of both, f's value where both have the key
Merge(f, g) == [k \in DOMAIN f \cup DOMAIN g |-> IF k \in DOMAIN f THEN f[k] ELSE g[k]]

\* isinstance(v, Mapping)
IsMapping(v) == v.ty = "map"

\* isinstance(v, Sequence): a list, and a str too
IsSequence(v) == v.ty \in {"list", "str"}

\* bool(v)
Truthy(v) ==
    CASE v.ty = "str" -> v.s # ""
      [] v.ty = "int" -> v.n # 0
      [] v.ty = "bool" -> v.b
      [] v.ty = "none" -> FALSE
      [] v.ty = "list" -> v.l # << >>
      [] v.ty = "map" -> DOMAIN v.m # {}

\* The elements a for loop over v visits.  Iterating a str yields its
\* characters, each a str: one stands for all of them, since the code only
\* ever asks whether an element is a Mapping.
Elements(v) ==
    CASE v.ty = "list" -> v.l
      [] v.ty = "str" -> IF v.s = "" THEN << >> ELSE << PStr(v.s) >>
      [] OTHER -> << >>

\* key in d, for a mapping d
HasKey(d, key) == key \in DOMAIN d.m

\* d.get(key, default), for a mapping d
GetOr(d, key, default) == IF key \in DOMAIN d.m THEN d.m[key] ELSE default

\* a == b on scalars: bool is a subclass of int, True == 1 and False == 0
Numeric(v) == v.ty \in {"int", "bool"}

NumberOf(v) == IF v.ty = "int" THEN v.n ELSE IF v.b THEN 1 ELSE 0

PyEq(a, b) == IF Numeric(a) /\ Numeric(b) THEN NumberOf(a) = NumberOf(b) ELSE a = b

\* str(v), as FileItem(v) and GlobItem(v) compute it (both subclass str)
StrOf(v) ==
    CASE v.ty = "str" -> v.s
      [] v.ty = "int" -> ToString(v.n)
      [] v.ty = "bool" -> IF v.b THEN "True" ELSE "False"
      [] v.ty = "none" -> "None"
      [] v.ty = "list" -> "[...]"
      [] v.ty = "map" -> "{...}"

\* hash(v) succeeds
Hashable(v) == v.ty \notin {"list", "map"}

----------------------------------------------------------------------------
(* Constants of parsing.py *)

DEFAULT_SUBTREES_KEY == "subtrees"
DEFAULT_ITEMS_KEY == "sections"
FILE_KEY == "file"
GLOB_KEY == "glob"
URL_KEY == "url"
TOCTREE_OPTIONS == {"caption", "hidden", "maxdepth", "numbered", "reversed", "titlesonly"}

----------------------------------------------------------------------------
(* The entities of api.py: Document, TocTree, FileItem, GlobItem, UrlItem *)

\* The declared default of each TocTree option field.
FieldDefault(key) ==
    CASE key = "caption" -> PNone
      [] key = "hidden" -> PBool(TRUE)
      [] key = "maxdepth" -> PInt(-1)
      [] key = "numbered" -> PBool(FALSE)
      [] key = "reversed" -> PBool(FALSE)
      [] key = "titlesonly" -> PBool(FALSE)

\* The declared type of each TocTree option field accepts v.
FieldAccepts(key, v) ==
    CASE key = "caption" -> v.ty \in {"none", "str"}
      [] key = "hidden" -> v.ty = "bool"
      [] key = "maxdepth" -> v.ty \in {"int", "bool"}
      [] key = "numbered" -> v.ty \in {"int", "bool"}
      [] key = "reversed" -> v.ty = "bool"
      [] key = "titlesonly" -> v.ty = "bool"

\* FileItem(v)
FileItem(v) == [kind |-> "file", name |-> StrOf(v), title |-> PNone]

\* GlobItem(v)
GlobItem(v) == [kind |-> "glob", name |-> StrOf(v), title |-> PNone]

\* UrlItem(url, title): a string and an optional string, else TypeError
UrlItem(url, title) ==
    IF url.ty = "str" /\ title.ty \in {"none", "str"}
    THEN [exc |-> "none", item |-> [kind |-> "url", name |-> url.s, title |-> title]]
    ELSE [exc |-> "TypeError"]

\* TocTree(items=items, **keywords): an unexpected keyword or a value of the
\* wrong type is a TypeError; a field not given takes its default.
TocTree(items, keywords) ==
    IF /\ DOMAIN keywords \subseteq TOCTREE_OPTIONS
       /\ \A k \in DOMAIN keywords : FieldAccepts(k, keywords[k])
    THEN [exc |-> "none",
          toctree |-> [k \in TOCTREE_OPTIONS \cup {"items"} |->
                         IF k = "items" THEN items
                         ELSE IF k \in DOMAIN keywords THEN keywords[k]
                         ELSE FieldDefault(k)]]
    ELSE [exc |-> "TypeError"]

\* Document(docname=docname, title=title, subtrees=toctrees)
Document(docname, title, subtrees) ==
    IF docname.ty = "str" /\ title.ty \in {"none", "str"}
    THEN [exc |-> "none",
          doc |-> [docname |-> docname.s, title |-> title, subtrees |-> subtrees]]
    ELSE [exc |-> "TypeError"]

\* SiteMap(root=root, meta=meta): the root is registered under its docname
SiteMap(root, meta) ==
    [root |-> root, docs |-> Dict1(root.docname, root), meta |-> meta]

\* docname in site_map
Contains(sm, docname) == docname.ty = "str" /\ docname.s \in DOMAIN sm.docs

\* site_map[docname] = item
SetItem(sm, docname, item) ==
    [sm EXCEPT !.docs = Merge(Dict1(docname, item), sm.docs)]

----------------------------------------------------------------------------
(* The parser *)

Malformed == [exc |-> "MalformedError"]

Raise(e) == [exc |-> e]

Min(S) == CHOOSE x \in S : \A y \in S : x <= y

\* One pass of the loop over items_data (lines 100-133): the item an
\* item-entry becomes, or the exception it raises.
_parse_item_data(item_data) ==
    IF ~IsMapping(item_data) THEN Malformed
    ELSE
    LET link_keys == {FILE_KEY, GLOB_KEY, URL_KEY} \cap DOMAIN item_data.m
    IN  IF link_keys = {} THEN Malformed
        ELSE IF Cardinality(link_keys) # 1 THEN Malformed
        ELSE IF \E item_key \in {GLOB_KEY, URL_KEY} :
                  \E other_key \in {DEFAULT_SUBTREES_KEY, DEFAULT_ITEMS_KEY} :
                     link_keys = {item_key} /\ HasKey(item_data, other_key)
             THEN Malformed
        ELSE IF link_keys = {FILE_KEY}
             THEN [exc |-> "none", item |-> FileItem(item_data.m[FILE_KEY])]
        ELSE IF link_keys = {GLOB_KEY}
             THEN [exc |-> "none", item |-> GlobItem(item_data.m[GLOB_KEY])]
        ELSE UrlItem(item_data.m[URL_KEY], GetOr(item_data, "title", PNone))

\* `for key in defaults` over a list (lines 137-139): an unhashable element
\* fails `key not in keywords`, a str or None element fails `defaults[key]`
\* with TypeError, an integer out of range with IndexError; an integer in
\* range becomes a keyword that is no string.
RECURSIVE _list_defaults(_, _)
_list_defaults(l, i) ==
    IF i > Len(l) THEN "none"
    ELSE IF ~Numeric(l[i]) THEN "TypeError"
    ELSE IF NumberOf(l[i]) >= -Len(l) /\ NumberOf(l[i]) < Len(l)
         THEN _list_defaults(l, i + 1)
         ELSE "IndexError"

\* The keywords of one toctree, were a key of defaults to replace the key
\* of toc_data
_keywords_defaults_first(toc_data, defaults) ==
    IF defaults.ty = "map"
    THEN [exc |-> "none",
          keywords |-> Merge(defaults.m,
                             [k \in TOCTREE_OPTIONS \cap DOMAIN toc_data.m |-> toc_data.m[k]]),
          nonstr |-> FALSE]
    ELSE Raise("TypeError")

\* The keywords of one toctree (lines 136-139): the recognized keys of
\* toc_data, then every key of defaults that is not among them.  nonstr
\* says that a keyword that is no string was added.
_keywords(toc_data, defaults) ==
    LET keywords == [k \in TOCTREE_OPTIONS \cap DOMAIN toc_data.m |-> toc_data.m[k]]
    IN  CASE defaults.ty = "map" ->
               [exc |-> "none", keywords |-> Merge(keywords, defaults.m), nonstr |-> FALSE]
          [] defaults.ty = "str" ->
               IF defaults.s = ""
               THEN [exc |-> "none", keywords |-> keywords, nonstr |-> FALSE]
               ELSE Raise("TypeError")
          [] defaults.ty = "list" ->
               IF _list_defaults(defaults.l, 1) = "none"
               THEN [exc |-> "none", keywords |-> keywords, nonstr |-> defaults.l # << >>]
               ELSE Raise(_list_defaults(defaults.l, 1))
          [] OTHER -> Raise("TypeError")

\* The exception of the first pass of a loop that raised, or "none"
FirstRaised(results) ==
    IF \A i \in DOMAIN results : results[i].exc = "none" THEN "none"
    ELSE results[Min({i \in DOMAIN results : results[i].exc # "none"})].exc

\* Lines 141-145: the TypeError of a construction is raised as MalformedError.
_validated(constructed) ==
    IF constructed.exc = "TypeError" THEN Malformed ELSE constructed

\* Lines 99-145, given the result of each pass of the loop over items_data
\* and the keywords: the first exception of the loop, else the exception of
\* the keywords, else the TocTree.
_toc_item(parsed, kw) ==
    IF FirstRaised(parsed) # "none" THEN Raise(FirstRaised(parsed))
    ELSE IF kw.exc # "none" THEN Raise(kw.exc)
    ELSE IF kw.nonstr THEN Malformed
    ELSE _validated(TocTree([i \in DOMAIN parsed |-> parsed[i].item], kw.keywords))

\* One pass of the loop over subtrees_data (lines 86-145).
_parse_toc_data(toc_data, defaults) ==
    IF ~(IsMapping(toc_data) /\ HasKey(toc_data, DEFAULT_ITEMS_KEY)) THEN Malformed
    ELSE IF ~(IsSequence(toc_data.m[DEFAULT_ITEMS_KEY])
              /\ Truthy(toc_data.m[DEFAULT_ITEMS_KEY])) THEN Malformed
    ELSE _toc_item([i \in 1..Len(Elements(toc_data.m[DEFAULT_ITEMS_KEY])) |->
                      _parse_item_data(Elements(toc_data.m[DEFAULT_ITEMS_KEY])[i])],
                   _keywords(toc_data, defaults))

\* subtrees_data, were the shorthand to drop the options mapping
_subtrees_data_without_options(data) ==
    IF HasKey(data, DEFAULT_ITEMS_KEY)
    THEN IF HasKey(data, DEFAULT_SUBTREES_KEY) THEN Malformed
         ELSE [exc |-> "none",
               l |-> << PMap(Dict1(DEFAULT_ITEMS_KEY, data.m[DEFAULT_ITEMS_KEY])) >>]
    ELSE IF HasKey(data, DEFAULT_SUBTREES_KEY)
    THEN IF IsSequence(data.m[DEFAULT_SUBTREES_KEY]) /\ Truthy(data.m[DEFAULT_SUBTREES_KEY])
         THEN [exc |-> "none", l |-> Elements(data.m[DEFAULT_SUBTREES_KEY])]
         ELSE Malformed
    ELSE [exc |-> "none", l |-> << >>]

\* subtrees_data (lines 67-79): the groupings of a document mapping, from
\* the shorthand, the long form, or none.
_subtrees_data(data) ==
    IF HasKey(data, DEFAULT_ITEMS_KEY)
    THEN IF HasKey(data, DEFAULT_SUBTREES_KEY) THEN Malformed
         ELSE IF ~IsMapping(GetOr(data, "options", PMap(EmptyDict))) THEN Raise("TypeError")
         ELSE [exc |-> "none",
               l |-> << PMap(Merge(GetOr(data, "options", PMap(EmptyDict)).m,
                                   Dict1(DEFAULT_ITEMS_KEY, data.m[DEFAULT_ITEMS_KEY]))) >>]
    ELSE IF HasKey(data, DEFAULT_SUBTREES_KEY)
    THEN IF IsSequence(data.m[DEFAULT_SUBTREES_KEY]) /\ Truthy(data.m[DEFAULT_SUBTREES_KEY])
         THEN [exc |-> "none", l |-> Elements(data.m[DEFAULT_SUBTREES_KEY])]
         ELSE Malformed
    ELSE [exc |-> "none", l |-> << >>]

RECURSIVE Flatten(_)
Flatten(ll) == IF ll = << >> THEN << >> ELSE Head(ll) \o Flatten(Tail(ll))

\* docs_data, were it to keep only the file item-entries that carry a
\* nested structure of their own
_docs_data_nested_only(subtrees_data) ==
    Flatten([t \in 1..Len(subtrees_data) |->
               SelectSeq(Elements(subtrees_data[t].m[DEFAULT_ITEMS_KEY]),
                         LAMBDA item_data :
                           /\ HasKey(item_data, FILE_KEY)
                           /\ \/ HasKey(item_data, DEFAULT_ITEMS_KEY)
                              \/ HasKey(item_data, DEFAULT_SUBTREES_KEY))])

\* docs_data (lines 154-159): the file item-entries of all groupings, in order
_docs_data(subtrees_data) ==
    Flatten([t \in 1..Len(subtrees_data) |->
               SelectSeq(Elements(subtrees_data[t].m[DEFAULT_ITEMS_KEY]),
                         LAMBDA item_data : HasKey(item_data, FILE_KEY))])

\* Lines 147-164, given the result of each pass of the loop over
\* subtrees_data: the first exception, else the Document and docs_data.
_doc_item(data, file_key, subtrees_data, parsed) ==
    IF FirstRaised(parsed) # "none" THEN Raise(FirstRaised(parsed))
    ELSE IF Document(data.m[file_key], GetOr(data, "title", PNone), << >>).exc = "TypeError"
    THEN Malformed
    ELSE [exc |-> "none",
          doc |-> Document(data.m[file_key], GetOr(data, "title", PNone),
                           [t \in DOMAIN parsed |-> parsed[t].toctree]).doc,
          docs_data |-> _docs_data(subtrees_data)]

\* Lines 83-164, given subtrees_data or the exception that computing it raised
_parse_subtrees(data, defaults, file_key, sd) ==
    IF sd.exc # "none" THEN Raise(sd.exc)
    ELSE _doc_item(data, file_key, sd.l,
                   [t \in 1..Len(sd.l) |-> _parse_toc_data(sd.l[t], defaults)])

\* _parse_doc_item(data, defaults, path, file_key=file_key); path only
\* words the error messages.
_parse_doc_item(data, defaults, file_key) ==
    IF ~HasKey(data, file_key) THEN Malformed
    ELSE _parse_subtrees(data, defaults, file_key, _subtrees_data(data))

RECURSIVE _parse_docs_list(_, _, _)
RECURSIVE _parse_child(_, _, _, _)
RECURSIVE _parse_rest(_, _, _)

\* Line 182 returned: the loop of line 174 goes on with the next entry.
_parse_rest(docs_list, defaults, below) ==
    IF below.exc # "none" THEN Raise(below.exc)
    ELSE _parse_docs_list(Tail(docs_list), below.site_map, defaults)

\* Lines 180-182, given what _parse_doc_item returned or raised for the
\* first entry of docs_list.
_parse_child(docs_list, sm, defaults, child) ==
    IF child.exc # "none" THEN Raise(child.exc)
    ELSE _parse_rest(docs_list, defaults,
                     _parse_docs_list(child.docs_data,
                                      SetItem(sm, child.doc.docname, child.doc),
                                      defaults))

\* _parse_docs_list(docs_list, site_map, defaults, path): the result is the
\* site_map after the insertions, or the exception raised.
_parse_docs_list(docs_list, sm, defaults) ==
    IF docs_list = << >> THEN [exc |-> "none", site_map |-> sm]
    ELSE IF ~Hashable(Head(docs_list).m["file"]) THEN Raise("TypeError")
    ELSE IF Contains(sm, Head(docs_list).m["file"]) THEN Malformed
    ELSE _parse_child(docs_list, sm, defaults,
                      _parse_doc_item(Head(docs_list), defaults, FILE_KEY))

\* Lines 48-52, given what _parse_doc_item returned or raised for the root
_parse_root(d, defaults, root) ==
    IF root.exc # "none" THEN Raise(root.exc)
    ELSE _parse_docs_list(root.docs_data,
                          SiteMap(root.doc, GetOr(d, "meta", PNone)),
                          defaults)

\* parse_toc_data(data)
parse_toc_data(d) ==
    IF ~IsMapping(d) THEN Malformed
    ELSE _parse_root(d, GetOr(d, "defaults", PMap(EmptyDict)),
                     _parse_doc_item(d, GetOr(d, "defaults", PMap(EmptyDict)), "root"))

----------------------------------------------------------------------------
(* The serializer: create_toc_dict and the recursion of _docitem_to_dict,  *)
(* one call per element of stack.  A frame holds the document of the call, *)
(* its file_key, the index t of the toctree and i of the item the call is  *)
(* at, the toctree mappings built so far (data[subtrees_key]) and the      *)
(* items built so far for toctree t.                                       *)

MaxStack == 6

Frame(doc_item, file_key) ==
    [doc |-> doc_item, file_key |-> file_key, t |-> 1, i |-> 1,
     subtrees |-> << >>, items |-> << >>]

Top == stack[Len(stack)]

\* The call on top is inside the comprehension of line 248, at an item.
OnItem ==
    /\ stack # << >>
    /\ Top.t <= Len(Top.doc.subtrees)
    /\ Top.i <= Len(Top.doc.subtrees[Top.t].items)

AtItem == pc = "serializing" /\ OnItem

CurrentItem == Top.doc.subtrees[Top.t].items[Top.i]

\* `item in site_map`, for a FileItem
Registered(item) == item.kind = "file" /\ item.name \in DOMAIN site_map.docs

\* The guard of lines 207-209
_recursion_guard(doc_item, visited) == doc_item.docname \in visited

\* A call deeper than the interpreter allows raises RecursionError too.
StackExhausted == Len(stack) >= MaxStack

\* The call _docitem_to_dict(doc_item, parsed_docnames=visited) raises.
CallRaises(doc_item, visited) == _recursion_guard(doc_item, visited) \/ StackExhausted

\* _parse_item(item), lines 230-236: an item that is not inlined
_parse_item(item) ==
    IF item.kind = "file" THEN PMap(Dict1(FILE_KEY, PStr(item.name)))
    ELSE IF item.kind = "glob" THEN PMap(Dict1(GLOB_KEY, PStr(item.name)))
    ELSE IF item.title # PNone
         THEN PMap([k \in {URL_KEY, "title"} |->
                      IF k = URL_KEY THEN PStr(item.name) ELSE item.title])
         ELSE PMap(Dict1(URL_KEY, PStr(item.name)))

\* toctree_data, lines 243-248: the option fields kept, and the items
_toctree_data(toctree, skip, items) ==
    LET keys == {key \in TOCTREE_OPTIONS :
                   (~skip) \/ ~PyEq(toctree[key], FieldDefault(key))}
    IN  PMap([k \in keys \cup {DEFAULT_ITEMS_KEY} |->
                IF k = DEFAULT_ITEMS_KEY THEN PList(items) ELSE toctree[k]])

\* lines 212-216: the file key and the title
_doc_head(doc_item, file_key) ==
    IF doc_item.title # PNone
    THEN [k \in {file_key, "title"} |->
            IF k = file_key THEN PStr(doc_item.docname) ELSE doc_item.title]
    ELSE Dict1(file_key, PStr(doc_item.docname))

\* The shorthand, were it to leave the options beside the items
_apply_shorthand_flat(head, subtrees) ==
    IF Len(subtrees) = 1 /\ HasKey(subtrees[1], DEFAULT_ITEMS_KEY)
    THEN Merge(head, subtrees[1].m)
    ELSE Merge(head, Dict1(DEFAULT_SUBTREES_KEY, PList(subtrees)))

\* lines 251-259: the shorthand, applied to data[subtrees_key]
_apply_shorthand(head, subtrees) ==
    IF Len(subtrees) = 1 /\ HasKey(subtrees[1], DEFAULT_ITEMS_KEY)
    THEN LET old_toctree_data == subtrees[1].m
             withItems == Merge(head, Dict1(DEFAULT_ITEMS_KEY,
                                            old_toctree_data[DEFAULT_ITEMS_KEY]))
         IN  IF Cardinality(DOMAIN old_toctree_data) > 1
             THEN Merge(withItems,
                        Dict1("options",
                              PMap([k \in DOMAIN old_toctree_data \ {DEFAULT_ITEMS_KEY}
                                      |-> old_toctree_data[k]])))
             ELSE withItems
    ELSE Merge(head, Dict1(DEFAULT_SUBTREES_KEY, PList(subtrees)))

\* The mapping a call of _docitem_to_dict returns (lines 212-261), given the
\* toctree mappings it has built.
_docitem_data(doc_item, file_key, subtrees) ==
    IF doc_item.subtrees = << >>
    THEN PMap(_doc_head(doc_item, file_key))
    ELSE PMap(_apply_shorthand(_doc_head(doc_item, file_key), subtrees))

\* site_map.meta.copy(): a dict and a list have the method
HasCopy(v) == v.ty \in {"map", "list"}

NoSiteMap == [root |-> PNone]
NoToc == PNone
NoResult == [exc |-> "unset"]

\* The caller of parse_toc_data gets a SiteMap or an exception.
ParseReturns(r) ==
    /\ exc' = r.exc
    /\ site_map' = IF r.exc = "none" THEN r.site_map ELSE NoSiteMap
    /\ pc' = IF r.exc = "none" THEN "parsed" ELSE "parse_raised"

\* parse_toc_data(input) is called and returns or raises.
Parse ==
    /\ pc = "start"
    /\ ParseReturns(parse_toc_data(input))
    /\ UNCHANGED <<input, skip_defaults, origin, stack, parsed_docnames, inlined,
                   toc, reparsed>>

\* create_toc_dict(site_map, skip_defaults=...) calls _docitem_to_dict on
\* the root with no set: lines 187-189 and 207-210.
Serialize ==
    /\ pc = "parsed"
    /\ IF CallRaises(site_map.root, {})
       THEN /\ exc' = "RecursionError"
            /\ pc' = "serialize_raised"
            /\ UNCHANGED <<stack, parsed_docnames, inlined>>
       ELSE /\ pc' = "serializing"
            /\ stack' = << Frame(site_map.root, "root") >>
            /\ parsed_docnames' = {site_map.root.docname}
            /\ inlined' = << site_map.root.docname >>
            /\ exc' = exc
    /\ UNCHANGED <<input, skip_defaults, site_map, origin, toc, reparsed>>

\* _parse_item on a FileItem that is a key of site_map: the recursive call
\* of lines 224-229, which passes the set on, enters the document.
InlineDocument ==
    /\ AtItem
    /\ Registered(CurrentItem)
    /\ ~CallRaises(site_map.docs[CurrentItem.name], parsed_docnames)
    /\ stack' = Append(stack, Frame(site_map.docs[CurrentItem.name], FILE_KEY))
    /\ parsed_docnames' = parsed_docnames \cup {site_map.docs[CurrentItem.name].docname}
    /\ inlined' = Append(inlined, site_map.docs[CurrentItem.name].docname)
    /\ UNCHANGED <<input, skip_defaults, pc, exc, site_map, origin, toc, reparsed>>

\* The recursive call finds the docname in the set: line 209.
RecursionFault ==
    /\ AtItem
    /\ Registered(CurrentItem)
    /\ CallRaises(site_map.docs[CurrentItem.name], parsed_docnames)
    /\ exc' = "RecursionError"
    /\ pc' = "serialize_raised"
    /\ UNCHANGED <<input, skip_defaults, site_map, origin, stack, parsed_docnames,
                   inlined, toc, reparsed>>

\* _parse_item on any other item returns its mapping: lines 230-236.
EmitItem ==
    /\ AtItem
    /\ ~Registered(CurrentItem)
    /\ stack' = [stack EXCEPT ![Len(stack)] =
                   [@ EXCEPT !.items = Append(@, _parse_item(CurrentItem)), !.i = @ + 1]]
    /\ UNCHANGED <<input, skip_defaults, pc, exc, site_map, origin, parsed_docnames,
                   inlined, toc, reparsed>>

\* The items of toctree t are done: lines 243-249 append its mapping.
AppendTocTree ==
    /\ pc = "serializing"
    /\ Top.t <= Len(Top.doc.subtrees)
    /\ Top.i > Len(Top.doc.subtrees[Top.t].items)
    /\ stack' = [stack EXCEPT ![Len(stack)] =
                   [@ EXCEPT !.subtrees = Append(@, _toctree_data(Top.doc.subtrees[Top.t],
                                                                  skip_defaults, Top.items)),
                             !.t = @ + 1, !.i = 1, !.items = << >>]]
    /\ UNCHANGED <<input, skip_defaults, pc, exc, site_map, origin, parsed_docnames,
                   inlined, toc, reparsed>>

\* A nested call returns its mapping (line 219 or 261) into the list of
\* line 248 of its caller.
ReturnToParent ==
    /\ pc = "serializing"
    /\ Len(stack) > 1
    /\ Top.t > Len(Top.doc.subtrees)
    /\ stack' = [SubSeq(stack, 1, Len(stack) - 1) EXCEPT ![Len(stack) - 1] =
                   [@ EXCEPT !.items = Append(@, _docitem_data(Top.doc, Top.file_key,
                                                               Top.subtrees)),
                             !.i = @ + 1]]
    /\ UNCHANGED <<input, skip_defaults, pc, exc, site_map, origin, parsed_docnames,
                   inlined, toc, reparsed>>

\* The call on the root returns to create_toc_dict, which adds a copy of
\* the meta and returns: lines 190-192.
ReturnToCaller ==
    /\ pc = "serializing"
    /\ Len(stack) = 1
    /\ Top.t > Len(Top.doc.subtrees)
    /\ stack' = << >>
    /\ IF Truthy(site_map.meta) /\ ~HasCopy(site_map.meta)
       THEN /\ exc' = "AttributeError"
            /\ pc' = "serialize_raised"
            /\ toc' = toc
       ELSE /\ toc' = IF Truthy(site_map.meta)
                      THEN PMap(Merge(Dict1("meta", site_map.meta),
                                      _docitem_data(Top.doc, Top.file_key, Top.subtrees).m))
                      ELSE _docitem_data(Top.doc, Top.file_key, Top.subtrees)
            /\ pc' = "serialized"
            /\ exc' = exc
    /\ UNCHANGED <<input, skip_defaults, site_map, origin, parsed_docnames, inlined,
                   reparsed>>

\* The mapping returned is parsed again.
Reparse ==
    /\ pc = "serialized"
    /\ reparsed' = parse_toc_data(toc)
    /\ pc' = "reparsed"
    /\ UNCHANGED <<input, skip_defaults, exc, site_map, origin, stack, parsed_docnames,
                   inlined, toc>>

Next ==
    \/ Parse
    \/ Serialize
    \/ InlineDocument
    \/ RecursionFault
    \/ EmitItem
    \/ AppendTocTree
    \/ ReturnToParent
    \/ ReturnToCaller
    \/ Reparse

----------------------------------------------------------------------------
(* The inputs: mappings as a YAML loader returns them, and SiteMaps built  *)
(* by hand from the entities.                                              *)

MaxItems == 2
MaxToctrees == 2
MaxDepth == 2

Lists(S, n) == UNION {[1..k -> S] : k \in 1..n}

File(n) == PMap(Dict1(FILE_KEY, PStr(n)))
Glob == PMap(Dict1(GLOB_KEY, PStr("*")))
Url == PMap(Dict1(URL_KEY, PStr("https://x")))
UrlTitled == PMap([url |-> PStr("https://x"), title |-> PStr("X")])

\* file: name, with more keys
FileWith(n, more) == PMap(Merge(Dict1(FILE_KEY, PStr(n)), more))

\* sections: a list of entries
Sections(l) == Dict1(DEFAULT_ITEMS_KEY, PList(l))

DocNames == << "a", "b", "c", "d" >>

\* Documents nested k deep, one inside the other, down to MaxDepth.
RECURSIVE Chain(_)
Chain(k) ==
    FileWith(DocNames[k],
             Merge(Sections(<< IF k < MaxDepth THEN Chain(k + 1) ELSE Glob >>),
                   Dict1("options", PMap([numbered |-> PInt(k)]))))

NestedDocs ==
    { FileWith("a", Sections(<< File("b") >>)),
      FileWith("a", [title |-> PStr("A"),
                     sections |-> PList(<< File("b"), UrlTitled >>),
                     options |-> PMap([hidden |-> PBool(FALSE), foo |-> PInt(1)])]),
      FileWith("b", [subtrees |-> PList(<<
                        PMap([sections |-> PList(<< File("a") >>), caption |-> PStr("C")]),
                        PMap([sections |-> PList(<< Glob >>), maxdepth |-> PInt(2)]) >>)]),
      FileWith("b", Sections(<< File("index") >>)),
      FileWith("a", Sections(<< File("a") >>)),
      FileWith("c", [title |-> PStr("C")]),
      Chain(1) }

LeafEntries == { File("a"), File("b"), Glob, Url, UrlTitled }

\* Entries that break the grammar of an item-entry, or the type of a value.
BadEntries ==
    { PInt(7),
      PMap([title |-> PStr("T")]),
      PMap([file |-> PStr("a"), glob |-> PStr("*")]),
      PMap([glob |-> PStr("*"), sections |-> PList(<< File("a") >>)]),
      PMap([url |-> PStr("https://x"), subtrees |-> PList(<< >>)]),
      PMap([url |-> PStr("https://x"), title |-> PInt(5)]),
      PMap([file |-> PInt(1)]),
      PMap([file |-> PList(<< >>)]),
      FileWith("b", [sections |-> PList(<< File("c") >>),
                     subtrees |-> PList(<< PMap(Sections(<< File("c") >>)) >>)]) }

\* A key left out of a mapping
Absent == [ty |-> "absent"]

\* options and defaults of the shorthand inputs
OptionsAndDefaults ==
    { [options |-> Absent, defaults |-> Absent],
      [options |-> PMap([hidden |-> PBool(FALSE)]), defaults |-> Absent],
      [options |-> Absent, defaults |-> PMap([hidden |-> PBool(FALSE)])],
      [options |-> PMap([hidden |-> PBool(TRUE), numbered |-> PInt(0)]),
       defaults |-> PMap([hidden |-> PBool(FALSE), maxdepth |-> PInt(3)])],
      [options |-> PMap([maxdepth |-> PInt(2), caption |-> PStr("C"), foo |-> PInt(1)]),
       defaults |-> PMap([caption |-> PStr("D")])],
      [options |-> PMap([sections |-> PList(<< Glob >>), reversed |-> PBool(TRUE)]),
       defaults |-> Absent],
      [options |-> Absent, defaults |-> PMap([foo |-> PInt(1)])] }

\* {root: "index"} with the keys of more whose value is not "absent"
Root(more) ==
    PMap([k \in {"root"} \cup {j \in DOMAIN more : more[j] # Absent} |->
            IF k = "root" THEN PStr("index") ELSE more[k]])

\* The shorthand: root, sections, and options and defaults or not.
ShorthandInputs ==
    { Root([sections |-> PList(l), options |-> od.options, defaults |-> od.defaults]) :
        l \in Lists(LeafEntries \cup NestedDocs, MaxItems), od \in OptionsAndDefaults }

Groupings ==
    { PMap(Merge(Sections(<< e >>), o)) :
        e \in { File("a"), File("b"), Glob, FileWith("c", Sections(<< UrlTitled >>)) },
        o \in { EmptyDict, [hidden |-> PBool(FALSE), titlesonly |-> PBool(TRUE)] } }

\* The long form: root, title and subtrees, and defaults or not.
LongInputs ==
    { Root([title |-> PStr("Index"), subtrees |-> PList(l), defaults |-> d]) :
        l \in Lists(Groupings, MaxToctrees),
        d \in { Absent, PMap([hidden |-> PBool(FALSE), caption |-> PStr("D")]) } }

\* Item-entries of every kind, under options and defaults of any type.
GrammarInputs ==
    { Root([sections |-> PList(l), options |-> o, defaults |-> d]) :
        l \in Lists(BadEntries \cup { File("a") }, MaxItems),
        o \in { Absent, PInt(5) },
        d \in { Absent, PInt(5) } }

\* Values of any type at the keys of the root.
TypeInputs ==
    { PInt(3), PList(<< >>), PNone, PMap(EmptyDict),
      PMap([file |-> PStr("index")]),
      Root(EmptyDict),
      Root([title |-> PInt(1)]),
      PMap([root |-> PInt(1)]),
      Root([file |-> PStr("index"), sections |-> PList(<< File("a") >>)]),
      Root([file |-> PStr("index"), sections |-> PList(<< File("index") >>)]),
      Root([meta |-> PMap([author |-> PStr("me")]), sections |-> PList(<< File("a") >>)]),
      Root([meta |-> PStr("draft"), sections |-> PList(<< File("a") >>)]),
      Root([meta |-> PInt(0)]),
      Root([sections |-> PList(<< File("a") >>), subtrees |-> PList(<< >>)]),
      Root([sections |-> PList(<< >>)]),
      Root([sections |-> PStr("abc")]),
      Root([sections |-> PInt(1)]),
      Root([sections |-> PMap(EmptyDict)]),
      Root([subtrees |-> PList(<< >>)]),
      Root([subtrees |-> PStr("abc")]),
      Root([subtrees |-> PNone]),
      Root([subtrees |-> PList(<< PInt(1) >>)]),
      Root([subtrees |-> PList(<< PMap([caption |-> PStr("C")]) >>)]),
      Root([subtrees |-> PList(<< PMap(Sections(<< File("a") >>)),
                                  PMap(Sections(<< >>)) >>)]),
      Root([options |-> PMap([maxdepth |-> PStr("x")]), sections |-> PList(<< File("a") >>)]),
      Root([options |-> PMap([maxdepth |-> PBool(TRUE)]), sections |-> PList(<< File("a") >>)]),
      Root([options |-> PMap([hidden |-> PInt(0)]), sections |-> PList(<< File("a") >>)]),
      Root([options |-> PMap([caption |-> PInt(0)]), sections |-> PList(<< File("a") >>)]),
      Root([options |-> PNone, sections |-> PList(<< File("a") >>)]),
      Root([options |-> PList(<< >>), sections |-> PList(<< File("a") >>)]),
      Root([options |-> PInt(5)]),
      Root([defaults |-> PInt(5)]),
      Root([defaults |-> PNone, sections |-> PList(<< File("a") >>)]),
      Root([defaults |-> PStr(""), sections |-> PList(<< File("a") >>)]),
      Root([defaults |-> PStr("hidden"), sections |-> PList(<< File("a") >>)]),
      Root([defaults |-> PList(<< >>), sections |-> PList(<< File("a") >>)]),
      Root([defaults |-> PList(<< PStr("hidden") >>), sections |-> PList(<< File("a") >>)]),
      Root([defaults |-> PList(<< PInt(0) >>), sections |-> PList(<< File("a") >>)]),
      Root([defaults |-> PList(<< PInt(4) >>), sections |-> PList(<< File("a") >>)]),
      Root([defaults |-> PMap([hidden |-> PStr("x")]), sections |-> PList(<< File("a") >>)]),
      Root([defaults |-> PMap([hidden |-> PStr("x")]),
            options |-> PMap([hidden |-> PBool(TRUE)]),
            sections |-> PList(<< File("a") >>)]) }

Inputs == ShorthandInputs \cup LongInputs \cup GrammarInputs \cup TypeInputs

\* A Document built by hand: its items in one toctree of default options,
\* or no toctree when it has no items.
BuiltDocument(docname, items) ==
    [docname |-> docname, title |-> PNone,
     subtrees |-> IF items = << >> THEN << >>
                  ELSE << TocTree(items, EmptyDict).toctree >>]

BuiltItems(names) == { FileItem(PStr(n)) : n \in names }

\* SiteMaps built by hand: the documents index, a and b are registered, and
\* their file items name one another, themselves, or c, which is not.
BuiltSiteMaps ==
    { [root |-> BuiltDocument("index", ri),
       docs |-> [n \in {"index", "a", "b"} |->
                   BuiltDocument(n, IF n = "index" THEN ri ELSE IF n = "a" THEN ai ELSE bi)],
       meta |-> PNone] :
        ri \in Lists(BuiltItems({"index", "a", "b"}), MaxItems),
        ai \in {<< >>} \cup Lists(BuiltItems({"index", "a", "b", "c"}), 1),
        bi \in {<< >>} \cup Lists(BuiltItems({"index", "a", "b", "c"}), 1) }

NoInput == PNone

InitParse ==
    /\ input \in Inputs
    /\ pc = "start"
    /\ origin = "parse"
    /\ site_map = NoSiteMap

InitBuilt ==
    /\ input = NoInput
    /\ pc = "parsed"
    /\ origin = "built"
    /\ site_map \in BuiltSiteMaps

Init ==
    /\ InitParse \/ InitBuilt
    /\ skip_defaults \in BOOLEAN
    /\ exc = "none"
    /\ stack = << >>
    /\ parsed_docnames = {}
    /\ inlined = << >>
    /\ toc = NoToc
    /\ reparsed = NoResult

Spec == Init /\ [][Next]_vars

----------------------------------------------------------------------------
(* What the claims speak of, read off the input and the SiteMap *)

\* parse_toc_data has returned a SiteMap to the caller
Parsed == origin = "parse" /\ pc \notin {"start", "parse_raised"}

\* parse_toc_data has raised
ParseRaised == origin = "parse" /\ pc = "parse_raised"

AsList(v) == IF v.ty = "list" THEN v.l ELSE << >>

LinkKeys(entry) == {FILE_KEY, GLOB_KEY, URL_KEY} \cap DOMAIN entry.m

FileBacked(entry) == IsMapping(entry) /\ FILE_KEY \in DOMAIN entry.m

\* The item-entries written in the groupings of a document mapping: those
\* of its sections, and those of the sections of each of its subtrees.
ItemEntries(d) ==
    (IF HasKey(d, DEFAULT_ITEMS_KEY) THEN AsList(d.m[DEFAULT_ITEMS_KEY]) ELSE << >>)
    \o (IF HasKey(d, DEFAULT_SUBTREES_KEY)
        THEN Flatten([t \in 1..Len(AsList(d.m[DEFAULT_SUBTREES_KEY])) |->
                        IF /\ IsMapping(AsList(d.m[DEFAULT_SUBTREES_KEY])[t])
                           /\ HasKey(AsList(d.m[DEFAULT_SUBTREES_KEY])[t], DEFAULT_ITEMS_KEY)
                        THEN AsList(AsList(d.m[DEFAULT_SUBTREES_KEY])[t].m[DEFAULT_ITEMS_KEY])
                        ELSE << >>])
        ELSE << >>)

\* The item-entries of a document mapping at any depth: its own, and those
\* of each file-backed entry among them.
RECURSIVE AllItemEntries(_)
EntriesBelow(entries) ==
    entries
    \o Flatten([i \in 1..Len(entries) |->
                  IF FileBacked(entries[i]) THEN AllItemEntries(entries[i]) ELSE << >>])

AllItemEntries(d) == EntriesBelow(ItemEntries(d))

\* The elements of a sequence
Range(q) == {q[i] : i \in 1..Len(q)}

\* The docnames used in the input: the root's, then each file-backed entry's.
FileKeysOf(entries) == [i \in 1..Len(entries) |-> entries[i].m[FILE_KEY]]

UsedDocnames(d) ==
    (IF HasKey(d, "root") THEN << d.m["root"] >> ELSE << >>)
    \o FileKeysOf(SelectSeq(AllItemEntries(d), FileBacked))

HasRepeat(q) == \E i, j \in 1..Len(q) : i < j /\ q[i] = q[j]

\* An item-entry that the grammar of item-entries rejects
BadItemEntry(entry) ==
    \/ ~IsMapping(entry)
    \/ /\ IsMapping(entry)
       /\ \/ Cardinality(LinkKeys(entry)) # 1
          \/ /\ LinkKeys(entry) \in {{GLOB_KEY}, {URL_KEY}}
             /\ \/ HasKey(entry, DEFAULT_ITEMS_KEY)
                \/ HasKey(entry, DEFAULT_SUBTREES_KEY)

\* The file items of the groupings of a Document, in order
FileItemsOf(doc) ==
    SelectSeq(Flatten([t \in 1..Len(doc.subtrees) |-> doc.subtrees[t].items]),
              LAMBDA item : item.kind = "file")

\* The names of the file items of all registered documents
AllFileItemNames(sm) ==
    UNION {{FileItemsOf(sm.docs[n])[i].name : i \in 1..Len(FileItemsOf(sm.docs[n]))} :
             n \in DOMAIN sm.docs}

\* The Documents equal in docname, title, ordered groupings, ordered items
\* and option values
SameDocument(d, e) ==
    /\ d.docname = e.docname
    /\ d.title = e.title
    /\ Len(d.subtrees) = Len(e.subtrees)
    /\ \A t \in 1..Len(d.subtrees) :
         /\ t <= Len(e.subtrees)
         /\ d.subtrees[t].items = e.subtrees[t].items
         /\ \A k \in TOCTREE_OPTIONS : PyEq(d.subtrees[t][k], e.subtrees[t][k])

\* The SiteMaps equal in root docname, registered docnames and Documents
SameSiteMap(a, b) ==
    /\ SameDocument(a.root, b.root)
    /\ DOMAIN a.docs = DOMAIN b.docs
    /\ \A n \in DOMAIN a.docs : n \in DOMAIN b.docs /\ SameDocument(a.docs[n], b.docs[n])

----------------------------------------------------------------------------
(* The claims *)

\* C1: round trip.  For every input on which parse succeeds, serialize with
\* skip_defaults succeeds, parsing its result succeeds, and the SiteMap
\* obtained equals the first in root docname, registered docnames, titles,
\* ordered groupings, ordered items and option values.
C1_RoundTrip ==
    (origin = "parse" /\ skip_defaults)
    => /\ pc # "serialize_raised"
       /\ pc = "reparsed" => /\ reparsed.exc = "none"
                             /\ SameSiteMap(reparsed.site_map, site_map)

\* C1, with a meta that create_toc_dict can copy: the round trip holds.
C1_RoundTripCopyableMeta ==
    (origin = "parse" /\ skip_defaults /\ pc # "start" /\ IsMapping(input)
       /\ (Truthy(GetOr(input, "meta", PNone)) => HasCopy(GetOr(input, "meta", PNone))))
    => C1_RoundTrip

\* C2: docname uniqueness.  parse raises MalformedError whenever a docname is
\* used by more than one file-backed entry of the input tree, or by a
\* file-backed entry and the root; in a SiteMap returned by parse each
\* docname identifies one Document, each registered Document but the root is
\* the target of exactly one file item, and the root of none.
C2_DocnameUnique ==
    /\ (origin = "parse" /\ pc # "start" /\ IsMapping(input) /\ HasRepeat(UsedDocnames(input)))
       => (pc = "parse_raised" /\ exc = "MalformedError")
    /\ Parsed
       => /\ \A n \in DOMAIN site_map.docs : site_map.docs[n].docname = n
          /\ site_map.docs[site_map.root.docname] = site_map.root
          /\ site_map.root.docname \notin AllFileItemNames(site_map)
          /\ \A n \in DOMAIN site_map.docs :
               ~HasRepeat([i \in 1..Len(FileItemsOf(site_map.docs[n])) |->
                             FileItemsOf(site_map.docs[n])[i].name])
          /\ \A n, o \in DOMAIN site_map.docs :
               n # o => {FileItemsOf(site_map.docs[n])[i].name :
                           i \in 1..Len(FileItemsOf(site_map.docs[n]))}
                        \cap {FileItemsOf(site_map.docs[o])[i].name :
                                i \in 1..Len(FileItemsOf(site_map.docs[o]))} = {}

\* C4: single failure kind.  Whatever the input, parse_toc_data returns a
\* complete SiteMap or raises MalformedError: no other exception reaches the
\* caller, and no SiteMap comes with an exception.
C4_SingleFailureKind ==
    origin = "parse"
    => /\ pc = "parse_raised" => (exc = "MalformedError" /\ site_map = NoSiteMap)
       /\ Parsed => (site_map # NoSiteMap
                     /\ AllFileItemNames(site_map) \subseteq DOMAIN site_map.docs)

\* C5: item-entry grammar.  parse raises MalformedError whenever an
\* item-entry of a grouping at any depth is no mapping, has none or several
\* of the link keys, or is a glob or url entry with a subtrees or sections
\* key; otherwise each entry becomes the item of its link key, in order.
C5_ItemGrammar ==
    /\ (origin = "parse" /\ pc # "start" /\ IsMapping(input)
          /\ \E i \in 1..Len(AllItemEntries(input)) : BadItemEntry(AllItemEntries(input)[i]))
       => (pc = "parse_raised" /\ exc = "MalformedError")
    /\ (Parsed /\ ~HasKey(input, DEFAULT_SUBTREES_KEY))
       => /\ Len(site_map.root.subtrees) = IF HasKey(input, DEFAULT_ITEMS_KEY) THEN 1 ELSE 0
          /\ HasKey(input, DEFAULT_ITEMS_KEY)
             => /\ Len(site_map.root.subtrees[1].items) = Len(ItemEntries(input))
                /\ \A i \in 1..Len(ItemEntries(input)) :
                     /\ i <= Len(site_map.root.subtrees[1].items)
                     /\ {site_map.root.subtrees[1].items[i].kind} = LinkKeys(ItemEntries(input)[i])
                     /\ PStr(site_map.root.subtrees[1].items[i].name)
                          = ItemEntries(input)[i].m[site_map.root.subtrees[1].items[i].kind]

\* The options of the shorthand carry the items-key, which line 73 lets
\* replace the sections of the document.
OptionsReplaceSections(d) ==
    /\ HasKey(d, "options")
    /\ IsMapping(d.m["options"])
    /\ HasKey(d.m["options"], DEFAULT_ITEMS_KEY)

\* C2, the kind of the exception left open and the sections not replaced:
\* an input that uses a docname twice never yields a SiteMap.
C2_RepeatNeverParsed ==
    (origin = "parse" /\ pc # "start" /\ IsMapping(input) /\ HasRepeat(UsedDocnames(input))
       /\ ~OptionsReplaceSections(input))
    => (pc = "parse_raised" /\ exc \in {"MalformedError", "TypeError", "IndexError"})

\* C5, the kind of the exception left open: an input with an item-entry
\* that the grammar rejects never yields a SiteMap.
C5_BadEntryNeverParsed ==
    (origin = "parse" /\ pc # "start" /\ IsMapping(input)
       /\ \E i \in 1..Len(AllItemEntries(input)) : BadItemEntry(AllItemEntries(input)[i]))
    => (pc = "parse_raised" /\ exc \in {"MalformedError", "TypeError", "IndexError"})

\* The example of the dangling file reference
DanglingExample == Root([sections |-> PList(<< File("a") >>)])

\* What parse returns for the example, but for the registered documents
DanglingExampleRoot ==
    /\ site_map.root.docname = "index"
    /\ Len(site_map.root.subtrees) = 1
    /\ site_map.root.subtrees[1].items = << FileItem(PStr("a")) >>

\* C3, as claimed: in the SiteMap parsed from {root: index, sections:
\* [{file: a}]} the document a is not registered, and no file item-entry
\* without sections or subtrees of its own becomes a key of the SiteMap.
C3_DanglingNotRegistered ==
    Parsed
    => /\ input = DanglingExample => (DanglingExampleRoot /\ "a" \notin DOMAIN site_map.docs)
       /\ \A i \in 1..Len(AllItemEntries(input)) :
            (/\ FileBacked(AllItemEntries(input)[i])
             /\ ~HasKey(AllItemEntries(input)[i], DEFAULT_ITEMS_KEY)
             /\ ~HasKey(AllItemEntries(input)[i], DEFAULT_SUBTREES_KEY))
            => ~Contains(site_map, AllItemEntries(input)[i].m[FILE_KEY])

\* C3, amended: in the SiteMap parsed from {root: index, sections: [{file:
\* a}]} the document a is registered, with no title and no grouping, and
\* in every SiteMap returned by parse the registered docnames are the
\* root's and those of all file items, nested structure or not.
C3_FileEntryRegistered ==
    Parsed
    => /\ input = DanglingExample
          => /\ DanglingExampleRoot
             /\ DOMAIN site_map.docs = {"index", "a"}
             /\ site_map.docs["a"] = [docname |-> "a", title |-> PNone, subtrees |-> << >>]
       /\ DOMAIN site_map.docs = AllFileItemNames(site_map) \cup {site_map.root.docname}

C3_Witness == pc = "parsed" /\ origin = "parse" /\ input = DanglingExample

\* The document mappings that parse_toc_data parses below a list of file
\* item-entries, in the order of the walk of _parse_docs_list
RECURSIVE DocDataBelow(_)
DocDataBelow(docs_list) ==
    IF docs_list = << >> THEN << >>
    ELSE << Head(docs_list) >>
         \o DocDataBelow(_docs_data(_subtrees_data(Head(docs_list)).l))
         \o DocDataBelow(Tail(docs_list))

\* The document mappings of a parsed input: the root, then the nested ones
AllDocData(d) == << d >> \o DocDataBelow(_docs_data(_subtrees_data(d).l))

\* The options written on grouping t of a document mapping: the options
\* mapping of the shorthand, or the grouping mapping of the long form
OwnOptions(d, t) ==
    IF HasKey(d, DEFAULT_ITEMS_KEY)
    THEN GetOr(d, "options", PMap(EmptyDict)).m
    ELSE d.m[DEFAULT_SUBTREES_KEY].l[t].m

\* The value of option k by the three tiers
Resolve(own, defaults, k) ==
    IF k \in DOMAIN own THEN own[k]
    ELSE IF IsMapping(defaults) /\ k \in DOMAIN defaults.m THEN defaults.m[k]
    ELSE FieldDefault(k)

\* The Document that parse made of document mapping i of AllDocData(input)
DocumentOf(i) ==
    IF i = 1 THEN site_map.root ELSE site_map.docs[AllDocData(input)[i].m[FILE_KEY].s]

\* C6: three-tier option resolution.  In a SiteMap returned by parse, each
\* recognized option of each grouping of each document, the root and the
\* nested ones, has the value set on the grouping if the key is there, else
\* the value of the key in the top-level defaults if it is there, else the
\* default of the option.
C6_ThreeTierOptions ==
    (origin = "parse" /\ pc = "parsed")
    => /\ Len(AllDocData(input)) = Cardinality(DOMAIN site_map.docs)
       /\ \A i \in 1..Len(AllDocData(input)) :
            \A t \in 1..Len(DocumentOf(i).subtrees) :
              \A k \in TOCTREE_OPTIONS :
                DocumentOf(i).subtrees[t][k]
                  = Resolve(OwnOptions(AllDocData(input)[i], t),
                            GetOr(input, "defaults", PMap(EmptyDict)), k)

\* parse has applied the defaults {hidden: false} to the grouping of a
\* nested document, and the root's grouping sets hidden: true itself.
C6_Witness ==
    /\ origin = "parse" /\ pc = "parsed"
    /\ HasKey(input, "defaults")
    /\ GetOr(input, "defaults", PNone) = PMap([hidden |-> PBool(FALSE), maxdepth |-> PInt(3)])
    /\ site_map.root.subtrees[1].hidden = PBool(TRUE)
    /\ \E n \in DOMAIN site_map.docs :
         /\ n # "index"
         /\ Len(site_map.docs[n].subtrees) = 1
         /\ site_map.docs[n].subtrees[1].hidden = PBool(FALSE)
         /\ site_map.docs[n].subtrees[1].maxdepth = PInt(3)

\* The document mappings written in a mapping: itself, and at any depth the
\* file-backed item-entries of its groupings
DocMappingsIn(d) == {d} \cup Range(SelectSeq(AllItemEntries(d), FileBacked))

\* The groupings of the Document that a document mapping of the result of
\* serialize stands for: the root's, a registered document's, or none
GroupingsOf(m) ==
    IF HasKey(m, "root") THEN site_map.root.subtrees
    ELSE IF m.m[FILE_KEY].s \in DOMAIN site_map.docs
    THEN site_map.docs[m.m[FILE_KEY].s].subtrees
    ELSE << >>

\* The options of a grouping that serialize emits
Emitted(toctree) ==
    {k \in TOCTREE_OPTIONS : (~skip_defaults) \/ ~PyEq(toctree[k], FieldDefault(k))}

\* C7: shorthand on output.  In the result of serialize, a document with
\* exactly one grouping is written with sections, without subtrees, and
\* with an options mapping holding the emitted options of the grouping, the
\* options key being there only if that mapping is non-empty; a document
\* with two or more groupings is written with subtrees, without sections
\* and without options at the top level; a document with no grouping has
\* none of the three keys.
C7_ShorthandOnOutput ==
    pc = "serialized"
    => \A m \in DocMappingsIn(toc) :
         /\ Len(GroupingsOf(m)) = 1
            => /\ HasKey(m, DEFAULT_ITEMS_KEY)
               /\ ~HasKey(m, DEFAULT_SUBTREES_KEY)
               /\ HasKey(m, "options") <=> Emitted(GroupingsOf(m)[1]) # {}
               /\ HasKey(m, "options")
                  => m.m["options"]
                       = PMap([k \in Emitted(GroupingsOf(m)[1]) |-> GroupingsOf(m)[1][k]])
               /\ TOCTREE_OPTIONS \cap DOMAIN m.m = {}
         /\ Len(GroupingsOf(m)) >= 2
            => /\ HasKey(m, DEFAULT_SUBTREES_KEY)
               /\ ~HasKey(m, DEFAULT_ITEMS_KEY)
               /\ ~HasKey(m, "options")
               /\ Len(AsList(m.m[DEFAULT_SUBTREES_KEY])) = Len(GroupingsOf(m))
         /\ Len(GroupingsOf(m)) = 0
            => /\ ~HasKey(m, DEFAULT_ITEMS_KEY)
               /\ ~HasKey(m, DEFAULT_SUBTREES_KEY)
               /\ ~HasKey(m, "options")

\* serialize has written one document by the shorthand with an options
\* mapping, and another with its two groupings under subtrees.
C7_Witness ==
    /\ pc = "serialized"
    /\ \E m, n \in DocMappingsIn(toc) :
         /\ Len(GroupingsOf(m)) = 1 /\ HasKey(m, "options")
         /\ Len(GroupingsOf(n)) = 2 /\ HasKey(n, DEFAULT_SUBTREES_KEY)

\* parse of the input has ended as the call that returned or raised r
EndsAs(r) ==
    /\ exc = r.exc
    /\ pc = "parsed" => site_map = r.site_map

\* The options mapping of a document mapping is a mapping, or is not there
SpreadableOptions(d) == IsMapping(GetOr(d, "options", PMap(EmptyDict)))

\* A document mapping in the shorthand form
Shorthand(d) == HasKey(d, DEFAULT_ITEMS_KEY) /\ ~HasKey(d, DEFAULT_SUBTREES_KEY)

\* d with sections and options removed and replaced by
\* subtrees: [{sections: d.sections, ...d.options}]
Desugared(d) ==
    PMap([k \in (DOMAIN d.m \ {DEFAULT_ITEMS_KEY, "options"}) \cup {DEFAULT_SUBTREES_KEY} |->
            IF k = DEFAULT_SUBTREES_KEY
            THEN PList(<< PMap(Merge(GetOr(d, "options", PMap(EmptyDict)).m,
                                     Dict1(DEFAULT_ITEMS_KEY, d.m[DEFAULT_ITEMS_KEY]))) >>)
            ELSE d.m[k]])

\* The input with the shorthand of every document mapping replaced, its
\* nested ones first
RECURSIVE DesugaredBelow(_)
DesugaredEntries(l) ==
    [i \in 1..Len(l) |-> IF FileBacked(l[i]) THEN DesugaredBelow(l[i]) ELSE l[i]]

DesugaredGrouping(g) ==
    IF IsMapping(g) /\ HasKey(g, DEFAULT_ITEMS_KEY) /\ g.m[DEFAULT_ITEMS_KEY].ty = "list"
    THEN PMap([g.m EXCEPT ![DEFAULT_ITEMS_KEY] = PList(DesugaredEntries(@.l))])
    ELSE g

DesugaredBelow(d) ==
    IF Shorthand(d) /\ SpreadableOptions(d)
    THEN PMap([Desugared(d).m EXCEPT ![DEFAULT_SUBTREES_KEY] =
                 PList(<< DesugaredGrouping(@.l[1]) >>)])
    ELSE IF HasKey(d, DEFAULT_SUBTREES_KEY) /\ ~HasKey(d, DEFAULT_ITEMS_KEY)
            /\ d.m[DEFAULT_SUBTREES_KEY].ty = "list"
    THEN PMap([d.m EXCEPT ![DEFAULT_SUBTREES_KEY] =
                 PList([t \in 1..Len(@.l) |-> DesugaredGrouping(@.l[t])])])
    ELSE d

\* The key that names the document of a document mapping
FileKeyOf(d) == IF HasKey(d, "root") THEN "root" ELSE FILE_KEY

\* C8: the shorthand is sugar for one grouping.  For every document mapping
\* d of the input that has sections and no subtrees, parsing d gives the
\* Document and the child file-entries, or the failure, that parsing d with
\* sections and options replaced by subtrees: [{sections: d.sections,
\* ...d.options}] gives, so that parse of the input and parse of the input
\* rewritten at every depth end alike; and a document mapping with both
\* sections and subtrees is rejected with MalformedError.
C8_ShorthandIsSugar ==
    (origin = "parse" /\ pc \in {"parsed", "parse_raised"} /\ IsMapping(input))
    => /\ \A d \in DocMappingsIn(input) :
            /\ (Shorthand(d) /\ SpreadableOptions(d))
               => _parse_doc_item(d, GetOr(input, "defaults", PMap(EmptyDict)), FileKeyOf(d))
                    = _parse_doc_item(Desugared(d),
                                      GetOr(input, "defaults", PMap(EmptyDict)), FileKeyOf(d))
            /\ (HasKey(d, DEFAULT_ITEMS_KEY) /\ HasKey(d, DEFAULT_SUBTREES_KEY))
               => _parse_doc_item(d, GetOr(input, "defaults", PMap(EmptyDict)), FileKeyOf(d))
                    = Malformed
       /\ EndsAs(parse_toc_data(DesugaredBelow(input)))
       /\ (HasKey(input, "root") /\ HasKey(input, DEFAULT_ITEMS_KEY)
           /\ HasKey(input, DEFAULT_SUBTREES_KEY))
          => /\ pc = "parse_raised"
             /\ exc = "MalformedError"

\* parse has returned the SiteMap of an input whose root is written in the
\* shorthand with options, and which nests a document in the shorthand.
C8_Witness ==
    /\ origin = "parse" /\ pc = "parsed"
    /\ Shorthand(input)
    /\ HasKey(input, "options")
    /\ GetOr(input, "options", PNone) = PMap([hidden |-> PBool(FALSE)])
    /\ site_map.root.subtrees[1].hidden = PBool(FALSE)
    /\ \E d \in DocMappingsIn(input) : d # input /\ Shorthand(d)

\* parse has rejected a document mapping with both sections and subtrees.
C8_BothKeysRejected ==
    /\ ParseRaised
    /\ IsMapping(input)
    /\ HasKey(input, DEFAULT_ITEMS_KEY) /\ HasKey(input, DEFAULT_SUBTREES_KEY)

\* C9: the recursion guard of serialize.  One set of visited docnames is
\* shared by the walk of one call, each registered document is inlined at
\* most once, the call raises only the recursion fault and only at a
\* registered document whose docname is in the set, and otherwise it
\* returns a mapping.
C9_RecursionGuard ==
    /\ ~HasRepeat(inlined)
    /\ parsed_docnames = {inlined[i] : i \in 1..Len(inlined)}
    /\ Len(stack) <= Len(inlined)
    /\ pc = "serialize_raised"
       => /\ exc = "RecursionError"
          /\ OnItem
          /\ Registered(CurrentItem)
          /\ site_map.docs[CurrentItem.name].docname \in parsed_docnames
    /\ pc = "serialized" => IsMapping(toc)

\* The part of C9 that is the guard alone: the walk visits no document
\* twice and is no deeper than the documents are many, a recursion fault is
\* raised at a registered document whose docname is in the set, and at such
\* a document the walk does nothing but raise it.
C9_GuardAlone ==
    /\ ~HasRepeat(inlined)
    /\ parsed_docnames = {inlined[i] : i \in 1..Len(inlined)}
    /\ Len(stack) <= Len(inlined)
    /\ inlined # << >> => Len(inlined) <= Cardinality(DOMAIN site_map.docs) + 1
    /\ (pc = "serialize_raised" /\ exc = "RecursionError")
       => /\ OnItem
          /\ Registered(CurrentItem)
          /\ site_map.docs[CurrentItem.name].docname \in parsed_docnames

C9_FaultWhenVisited ==
    [][(/\ AtItem
        /\ Registered(CurrentItem)
        /\ site_map.docs[CurrentItem.name].docname \in parsed_docnames)
       => (pc' = "serialize_raised" /\ exc' = "RecursionError")]_vars

\* A mapping without the keys that are no recognized option; sections, the
\* key of the items, stays.
Recognized(v) ==
    IF IsMapping(v)
    THEN PMap([k \in DOMAIN v.m \cap (TOCTREE_OPTIONS \cup {DEFAULT_ITEMS_KEY}) |-> v.m[k]])
    ELSE v

\* The input without the unrecognized keys of its defaults, of its options
\* and of the groupings of its subtrees
WithoutUnrecognized(d) ==
    PMap([k \in DOMAIN d.m |->
            IF k \in {"defaults", "options"} THEN Recognized(d.m[k])
            ELSE IF k = DEFAULT_SUBTREES_KEY /\ d.m[k].ty = "list"
            THEN PList([t \in 1..Len(d.m[k].l) |-> Recognized(d.m[k].l[t])])
            ELSE d.m[k]])

\* The input has a key that is no recognized option in its defaults, its
\* options or a grouping of its subtrees
HasUnrecognized(d) == IsMapping(d) /\ WithoutUnrecognized(d) # d

\* The keywords with which the TocTree of each grouping of the root is
\* constructed are recognized options
KeywordsRecognized(subtrees_data, defaults) ==
    \A t \in 1..Len(subtrees_data) :
      (IsMapping(subtrees_data[t]) /\ _keywords(subtrees_data[t], defaults).exc = "none")
      => DOMAIN _keywords(subtrees_data[t], defaults).keywords \subseteq TOCTREE_OPTIONS

\* C10: only recognized option keys reach a grouping.  The keywords with
\* which a grouping is constructed are among {caption, hidden, maxdepth,
\* numbered, reversed, titlesonly}, and a key outside that set, on a
\* grouping mapping or in the top-level defaults, is ignored: parse of the
\* input ends as parse of the input without such keys does, with the same
\* SiteMap or the same failure.
C10_UnrecognizedIgnored ==
    (origin = "parse" /\ pc \in {"parsed", "parse_raised"} /\ IsMapping(input))
    => /\ _subtrees_data(input).exc = "none"
          => KeywordsRecognized(_subtrees_data(input).l,
                                GetOr(input, "defaults", PMap(EmptyDict)))
       /\ HasUnrecognized(input) => EndsAs(parse_toc_data(WithoutUnrecognized(input)))

\* The part of C10 that holds: a key that is no recognized option, written
\* on a grouping mapping or in the options of the shorthand, is ignored.
C10_IgnoredOnGrouping ==
    (/\ origin = "parse" /\ pc \in {"parsed", "parse_raised"}
     /\ HasUnrecognized(input)
     /\ Recognized(GetOr(input, "defaults", PMap(EmptyDict)))
          = GetOr(input, "defaults", PMap(EmptyDict)))
    => EndsAs(parse_toc_data(WithoutUnrecognized(input)))

====
